---- MODULE Spec2Model ----
(***************************************************************************)
(* The application runs of backend/main.py: start_application creates a    *)
(* status entry and an asyncio task, process_application drives one        *)
(* JobApplicationFiller through the stages and writes the entry, and       *)
(* get_application_status polls the entry.                                 *)
(*                                                                         *)
(* The tasks run on one asyncio event loop: the code between two awaits    *)
(* that really suspend is one atomic step.  An action of a run is the      *)
(* completion of the call the task is suspended in, followed by the code   *)
(* up to the next suspension.                                              *)
(***************************************************************************)
EXTENDS Integers, Sequences, FiniteSets, TLC

\* ------------------------------------------------------------------ bounds
\* The number of start_application calls in a behaviour.
MaxRuns == 2
\* The clock's units in one second.
TicksPerSecond == 2

VARIABLES
    now,                \* the last reading of datetime.now(), in clock units
    api_key,            \* whether OPENAI_API_KEY is set in the environment
    acquire,            \* whether a filler's session is started after construction
    application_status, \* main.py:51, app_id -> status entry
    runs,               \* the process_application tasks, in creation order
    fillers,            \* the JobApplicationFiller instances, by identity
    used,               \* <<filler, run>>: run called a method of filler
    request,            \* the optional parts of the request of the run under study
    \* one filler on one page (form_filler.py:56-212)
    page,               \* the form elements of the page, in document order
    personal_info,      \* the profile fill_personal_info is called with
    form_fields,        \* self.form_fields
    attempts,           \* the calls of _fill_field, in order
    fpc,                \* where the filler is
    cursor,             \* the index of the field or entry the loop of a fill stage is at
    faults,             \* the elements whose analysis or label lookup failed in the scan
    \* the other fill stages (form_filler.py:214-299)
    jobs,               \* the work history fill_work_history is called with
    diversity,          \* the diversity info fill_diversity_info is called with
    textareas,          \* the textareas fill_open_ended_questions finds
    llm_calls,          \* the calls of generate_form_response, in order
    \* submit_application on one page (form_filler.py:301-353)
    controls,           \* the controls of the page, in document order
    page_content,       \* what the page shows after a click
    consulted,          \* the selectors whose query has returned, in order
    submit_button,      \* the control the last query returned, 0 for None
    clicked,            \* the control that was clicked, 0 for none
    content,            \* the content page.content() returned, None before
    outcome,            \* what submit_application returned, None before
    spc                 \* where submit_application is

runVars == <<now, api_key, acquire, application_status, runs, fillers, used>>
formVars == <<page, personal_info, form_fields, attempts, fpc, cursor, faults>>
fillVars == <<jobs, diversity, textareas, llm_calls>>
submitVars ==
    <<controls, page_content, consulted, submit_button, clicked, content, outcome, spc>>

vars == <<runVars, request, formVars, fillVars, submitVars>>

\* ------------------------------------------------------------------ strings
\* A string is a sequence of pieces; an f-string concatenates its pieces.
Contains(s, t) ==
    \E i \in 1..(Len(s) - Len(t) + 1) : \A j \in 1..Len(t) : s[i + j - 1] = t[j]

NoError == << >>
NoneTypeGoto == <<"'NoneType' object has no attribute 'goto'">>
DriverError == <<"driver error">>
KeyNotSet == <<"OPENAI_API_KEY environment variable not set. Please add it to your .env file.">>

Urls == {"http://jobs.example/apply"}

\* The clock units that pass between two calls of start_application.
Elapsed == {0, 1}

\* The optional parts of the request that process_application tests (main.py:263,
\* 271, 279) are work_history, diversity_info and resume_data: whether the part
\* is there.  The request is immutable and each part is read once, at its test:
\* the step that reaches a test draws the part there.

\* ------------------------------------------------------------------ run ids
\* datetime.now().strftime('%Y%m%d_%H%M%S'): the reading cut to whole seconds.
AppId(t) == <<"app_", t \div TicksPerSecond>>

\* The identifiers polled: those a run can get, and a later one no run gets.
AppIds == {AppId(t) : t \in 0..(MaxRuns + TicksPerSecond)}

\* ------------------------------------------------------------------ the status store
Put(store, k, v) == [x \in DOMAIN store \cup {k} |-> IF x = k THEN v ELSE store[x]]

\* details is {} (no payload) or one outcome of submit_application.
EmptyDetails == << >>

InitialStatus ==
    [status |-> "starting", message |-> <<"Initializing application...">>,
     progress |-> 0, details |-> EmptyDetails]

\* The mutant of InitialEntry: the entry is left for the task to create.
InitialEntryDeferred(store, app_id) == store

\* start_application's write of the entry, before the task is created.
InitialEntry(store, app_id) == Put(store, app_id, InitialStatus)

\* The mutant of ErrorStatus: the handler forgets the progress reset.
ErrorStatusKeepsProgress(entry, e) ==
    [entry EXCEPT !.status = "error", !.message = <<"Error: ">> \o e]

\* The except handler of process_application.
ErrorStatus(entry, e) ==
    [entry EXCEPT !.status = "error", !.message = <<"Error: ">> \o e, !.progress = 0]

\* get_application_status.
get_application_status(store, app_id) ==
    IF app_id \notin DOMAIN store
    THEN [app_id |-> app_id, code |-> 404, body |-> <<"Application not found">>]
    ELSE [app_id |-> app_id, code |-> 200, body |-> store[app_id]]

\* ------------------------------------------------------------------ fillers
\* JobApplicationFiller.__init__: no browser, no page.
NewFillerObject == [page |-> "None", browser |-> "None", playwright |-> FALSE]

\* The mutant of NewFiller: one module-level filler instance, used by every run.
SharedFiller(r) == 1

\* The instance that JobApplicationFiller() returns to run r: a fresh one, which
\* the model names after the run that constructs it.
NewFiller(r) == r

\* ------------------------------------------------------------------ a task's context
\* k = [st, written, pc, raised]: the entry as the task writes it, the progress
\* values the run has written, where the task is, and what reached the handler.
SetProgress(k, msg, p) ==
    [k EXCEPT !.st.message = <<msg>>, !.st.progress = p, !.written = Append(@, p)]

\* The mutant of Handler: the handler waits for a cleanup that never returns.
HandlerHangs(k, e) ==
    [k EXCEPT !.st = ErrorStatus(@, e), !.written = Append(@, 0),
              !.raised = e, !.pc = "cleanup"]

\* except Exception as e (main.py:298-301); the task ends.
Handler(k, e) ==
    [k EXCEPT !.st = ErrorStatus(@, e), !.written = Append(@, 0),
              !.raised = e, !.pc = "done"]

RunIds == 1..Len(runs)

Ctx(r) ==
    [st |-> application_status[runs[r].app_id], written |-> runs[r].written,
     pc |-> runs[r].pc, raised |-> runs[r].raised]

\* The task's writes become the store's and the run's.
CommitOn(r, k, f, null_page) ==
    /\ application_status' = [application_status EXCEPT ![runs[r].app_id] = k.st]
    /\ runs' = [runs EXCEPT ![r].written = k.written, ![r].pc = k.pc,
                            ![r].raised = k.raised,
                            ![r].close_called = @ \/ k.pc = "close",
                            ![r].filler = f,
                            ![r].null_page = null_page]

Commit(r, k) == CommitOn(r, k, runs[r].filler, runs[r].null_page)

\* ------------------------------------------------------------------ start_application
start_application(url, dt) ==
    /\ Len(runs) < MaxRuns
    /\ now' = now + dt
    /\ LET app_id == AppId(now') IN
         /\ application_status' = InitialEntry(application_status, app_id)
         /\ runs' = Append(runs,
                [app_id |-> app_id, url |-> url, pc |-> "created",
                 filler |-> 0, written |-> <<0>>, raised |-> NoError,
                 close_called |-> FALSE, null_page |-> FALSE])
    /\ UNCHANGED <<request, formVars, fillVars, submitVars, api_key, acquire, fillers, used>>

\* ------------------------------------------------------------------ polling
\* A poll reads the store and changes nothing; Response is what it answers.
Response(app_id) == get_application_status(application_status, app_id)

Poll(app_id) ==
    /\ Response(app_id).code \in {200, 404}
    /\ UNCHANGED vars

\* ------------------------------------------------------------------ process_application
NavigateError(url, cause) == <<"Failed to navigate to ", url, ": ">> \o cause

DetectError(cause) == <<"Error detecting form fields: ">> \o cause

\* A page operation succeeds when the driver does and the page is live.
PageOk(f, ok) == ok /\ fillers[f].page = "live"

\* The mutant of AfterOpenEnded: the submit stage reports 59 for 95.
AfterOpenEndedRegresses(k) ==
    [SetProgress(k, "Submitting application...", 59) EXCEPT !.pc = "submit"]

\* main.py:282-287: submit_application is awaited.
AfterOpenEnded(k) ==
    [SetProgress(k, "Submitting application...", 95) EXCEPT !.pc = "submit"]

\* main.py:274-280.
AfterDiversity(k, resume_data) ==
    LET k1 == SetProgress(k, "Generating open-ended responses...", 90) IN
    IF resume_data THEN [k1 EXCEPT !.pc = "open_ended"] ELSE AfterOpenEnded(k1)

\* main.py:266-272.
AfterWorkHistory(k, diversity_info, resume_data) ==
    LET k1 == SetProgress(k, "Handling diversity questions...", 80) IN
    IF diversity_info THEN [k1 EXCEPT !.pc = "diversity"]
    ELSE AfterDiversity(k1, resume_data)

\* The mutant of AfterPersonal: fill_work_history is called without the test.
AfterPersonalAlways(k, work_history, diversity_info, resume_data) ==
    [SetProgress(k, "Filling work history...", 70) EXCEPT !.pc = "work_history"]

\* main.py:258-264.
AfterPersonal(k, work_history, diversity_info, resume_data) ==
    LET k1 == SetProgress(k, "Filling work history...", 70) IN
    IF work_history THEN [k1 EXCEPT !.pc = "work_history"]
    ELSE AfterWorkHistory(k1, diversity_info, resume_data)

\* The task's first step, main.py:228-242: the filler is constructed and
\* navigate_to_application is called.  JobApplicationFiller() leaves page None
\* and process_application never starts the browser, so page.goto raises
\* before any suspension and the handler ends the task in the same step.
\* With acquire the session is started after construction, as __aenter__ does
\* (form_filler.py:16-19), and the task is suspended in start_browser.
Begin(r) ==
    /\ runs[r].pc = "created"
    /\ LET k0 == Ctx(r)
           k1 == SetProgress([k0 EXCEPT !.st.status = "processing"],
                             "Analyzing job application form...", 10)
           f  == NewFiller(r)
           k2 == SetProgress(k1, "Navigating to application page...", 20)
       IN IF ~api_key
          THEN \* LLMService.__init__ raises ValueError (llm_service.py:14-16)
               /\ Commit(r, Handler(k1, KeyNotSet))
               /\ UNCHANGED <<fillers, used>>
          ELSE IF acquire
          THEN /\ CommitOn(r, [k1 EXCEPT !.pc = "start_browser"], f, FALSE)
               /\ fillers' = Put(fillers, f, NewFillerObject)
               /\ used' = used
          ELSE \* self.page is None: AttributeError, caught at form_filler.py:53
               /\ CommitOn(r, Handler(k2, NavigateError(runs[r].url, NoneTypeGoto)),
                           f, TRUE)
               /\ fillers' = Put(fillers, f, NewFillerObject)
               /\ used' = used \cup {<<f, r>>}
    /\ UNCHANGED <<request, formVars, fillVars, submitVars, now, api_key, acquire>>

\* start_browser returns or fails (form_filler.py:25-37); then main.py:237-242.
StartBrowser(r, ok) ==
    /\ runs[r].pc = "start_browser"
    /\ LET f == runs[r].filler IN
       IF ok
       THEN /\ fillers' = [fillers EXCEPT ![f] =
                   [page |-> "live", browser |-> "live", playwright |-> TRUE]]
            /\ Commit(r, [SetProgress(Ctx(r), "Navigating to application page...", 20)
                            EXCEPT !.pc = "navigate"])
            /\ used' = used \cup {<<f, r>>}
       ELSE /\ fillers' = [fillers EXCEPT ![f].playwright = TRUE]
            /\ Commit(r, Handler(Ctx(r), DriverError))
            /\ used' = used
    /\ UNCHANGED <<request, formVars, fillVars, submitVars, now, api_key, acquire>>

\* page.goto returns or fails (form_filler.py:48-54); then main.py:244-249.
Navigate(r, ok) ==
    /\ runs[r].pc = "navigate"
    /\ IF PageOk(runs[r].filler, ok)
       THEN Commit(r, [SetProgress(Ctx(r), "Detecting form fields...", 40)
                         EXCEPT !.pc = "detect"])
       ELSE Commit(r, Handler(Ctx(r), NavigateError(runs[r].url, DriverError)))
    /\ used' = used \cup {<<runs[r].filler, r>>}
    /\ UNCHANGED <<request, formVars, fillVars, submitVars, now, api_key, acquire, fillers>>

\* detect_form_fields returns or raises (form_filler.py:56-87); then main.py:251-256.
DetectFields(r, ok) ==
    /\ runs[r].pc = "detect"
    /\ IF PageOk(runs[r].filler, ok)
       THEN Commit(r, [SetProgress(Ctx(r), "Filling personal information...", 60)
                         EXCEPT !.pc = "personal"])
       ELSE Commit(r, Handler(Ctx(r), DetectError(DriverError)))
    /\ used' = used \cup {<<runs[r].filler, r>>}
    /\ UNCHANGED <<request, formVars, fillVars, submitVars, now, api_key, acquire, fillers>>

\* A stage that catches the failures of its driver calls returns, whether they
\* failed or not, and the code runs on to the next method of the filler it calls.
StageReturns(r, pc, k) ==
    /\ runs[r].pc = pc
    /\ Commit(r, k)
    /\ used' = used \cup {<<runs[r].filler, r>>}
    /\ UNCHANGED <<request, formVars, fillVars, submitVars, now, api_key, acquire, fillers>>

\* fill_personal_info returns: _fill_field catches a failed fill (form_filler.py:211).
FillPersonal(r, work_history, diversity_info, resume_data) ==
    StageReturns(r, "personal",
                 AfterPersonal(Ctx(r), work_history, diversity_info, resume_data))

\* fill_work_history returns (form_filler.py:230 catches).
FillWorkHistory(r, diversity_info, resume_data) ==
    StageReturns(r, "work_history", AfterWorkHistory(Ctx(r), diversity_info, resume_data))

\* fill_diversity_info returns (form_filler.py:254 catches).
FillDiversity(r, resume_data) ==
    StageReturns(r, "diversity", AfterDiversity(Ctx(r), resume_data))

\* fill_open_ended_questions returns (form_filler.py:278 catches).
FillOpenEnded(r) ==
    StageReturns(r, "open_ended", AfterOpenEnded(Ctx(r)))

\* The outcome of submit_application: found is whether a selector matched,
\* ok whether no driver call raised, success whether a keyword was in the page.
submit_application(found, ok, success) ==
    IF ~ok
    THEN [submitted |-> FALSE, successful |-> FALSE,
          message |-> <<"Error submitting application: ">> \o DriverError]
    ELSE IF found
    THEN [submitted |-> TRUE, successful |-> success,
          message |-> IF success THEN <<"Application submitted successfully">>
                      ELSE <<"Application submitted (status unclear)">>]
    ELSE [submitted |-> FALSE, successful |-> FALSE,
          message |-> <<"Submit button not found">>]

\* The mutant of Completed: an outcome that is not submitted is an error.
CompletedIfSubmitted(k, result) ==
    IF result.submitted
    THEN [SetProgress([k EXCEPT !.st.status = "completed"],
                      "Application submitted successfully!", 100)
            EXCEPT !.st.details = <<result>>, !.pc = "close"]
    ELSE Handler(k, result.message)

\* main.py:289-296: the final status is written and close is awaited.
Completed(k, result) ==
    [SetProgress([k EXCEPT !.st.status = "completed"],
                 "Application submitted successfully!", 100)
       EXCEPT !.st.details = <<result>>, !.pc = "close"]

\* submit_application returns; then main.py:289-296.
Submit(r, found, ok, success) ==
    StageReturns(r, "submit",
        Completed(Ctx(r), submit_application(found, PageOk(runs[r].filler, ok), success)))

\* close returns or raises (form_filler.py:39-46); a raise reaches the handler.
Close(r, ok) ==
    /\ runs[r].pc = "close"
    /\ LET f == runs[r].filler IN
       IF ok
       THEN /\ fillers' = [fillers EXCEPT ![f].page = "closed", ![f].browser = "closed"]
            /\ Commit(r, [Ctx(r) EXCEPT !.pc = "done"])
       ELSE /\ fillers' = fillers
            /\ Commit(r, Handler(Ctx(r), DriverError))
    /\ UNCHANGED <<request, formVars, fillVars, submitVars, now, api_key, acquire, used>>

\* ================================================================== the form filler
\* form_filler.py, on one page with a started session.  A text of the page (a
\* name, a placeholder, a label, the content) is the sequence of its
\* characters; a type and a profile value are compared whole and are strings.

\* ------------------------------------------------------------------ bounds
\* The number of form elements of the page.
MaxFields == 2

UpperCase == <<"A","B","C","D","E","F","G","H","I","J","K","L","M","N","O","P","Q","R","S","T","U","V","W","X","Y","Z">>
LowerCase == <<"a","b","c","d","e","f","g","h","i","j","k","l","m","n","o","p","q","r","s","t","u","v","w","x","y","z">>

\* The lower-case letter of each upper-case letter.
ToLower ==
    [c \in {UpperCase[j] : j \in 1..Len(UpperCase)} |->
        LowerCase[CHOOSE j \in 1..Len(UpperCase) : UpperCase[j] = c]]

\* str.lower().
lower(s) ==
    << >> \o [i \in 1..Len(s) |-> IF s[i] \in DOMAIN ToLower THEN ToLower[s[i]] ELSE s[i]]

\* a or b, for an attribute that is None or a text: None and '' are both << >>.
Or(a, b) == IF a # << >> THEN a ELSE b

\* An optional value: << >> is None, <<v>> is v.
None == << >>

\* ------------------------------------------------------------------ the page
\* An element of the page: its tag, its attributes (type is "" when the
\* attribute is absent), the text of the label _get_field_label finds for it
\* (form_filler.py:125-144, '' when there is none or the lookup fails) and the
\* value it holds.
Element(tag, type, name, id, placeholder, label) ==
    [tag |-> tag, type |-> type, name |-> name, id |-> id,
     placeholder |-> placeholder, label |-> label, required |-> FALSE, value |-> ""]

\* The elements a page is made of.
Elements ==
    {Element("input", "text", <<"a","p","p","l","i","c","a","n","t","_","f","i","r","s","t","_","n","a","m","e">>, <<>>, <<>>, <<>>),
     Element("input", "text", <<"E","m","a","i","l">>, <<>>, <<>>, <<>>),
     Element("input", "text", <<"e","m","a","i","l","_","d","a","t","e">>, <<>>, <<>>, <<>>),
     Element("input", "text", <<"l","a","s","t","_","e","m","a","i","l">>, <<>>, <<>>, <<"L","a","s","t"," ","n","a","m","e">>),
     Element("input", "tel", <<"p","h","o","n","e">>, <<>>, <<>>, <<>>),
     Element("input", "tel", <<"m","o","b","i","l","e">>, <<>>, <<>>, <<>>),
     Element("input", "text", <<"c","o","n","t","a","c","t">>, <<>>, <<"P","h","o","n","e">>, <<>>),
     Element("input", "text", <<"w","h","e","n">>, <<>>, <<"S","t","a","r","t"," ","d","a","t","e">>, <<>>),
     Element("input", "text", <<"q","1">>, <<>>, <<"Y","o","u","r"," ","e","m","a","i","l">>, <<"E","-","m","a","i","l">>),
     Element("input", "date", <<"s","t","a","r","t">>, <<>>, <<>>, <<>>),
     Element("input", "file", <<"r","e","s","u","m","e">>, <<>>, <<>>, <<>>),
     Element("input", "checkbox", <<"a","g","r","e","e">>, <<>>, <<>>, <<>>),
     Element("textarea", "", <<"c","o","v","e","r">>, <<>>, <<>>, <<>>),
     Element("input", "text", <<>>, <<"c","i","t","y">>, <<>>, <<>>)}

\* The pages: up to MaxFields elements, in document order.
Pages == UNION {[1..n -> Elements] : n \in 0..MaxFields}

\* The applicant profiles (models.py:56-65); a str attribute may be ''.
Profiles ==
    {[first_name |-> "John", last_name |-> "Doe", email |-> "john@example.com",
      phone |-> "555-0100",
      address |-> [street |-> "1 Main St", city |-> "Springfield",
                   state |-> "IL", zip_code |-> "62701"]],
     [first_name |-> "Ann", last_name |-> "", email |-> "ann@example.com",
      phone |-> "555-0199",
      address |-> [street |-> "2 Oak Ave", city |-> "", state |-> "OR",
                   zip_code |-> "97201"]]}

\* ------------------------------------------------------------------ detect_form_fields
\* form_filler.py:60-71.
field_selectors ==
    <<[tag |-> "input", type |-> "text"], [tag |-> "input", type |-> "email"],
      [tag |-> "input", type |-> "tel"], [tag |-> "input", type |-> "number"],
      [tag |-> "input", type |-> "date"], [tag |-> "textarea", type |-> ""],
      [tag |-> "select", type |-> ""], [tag |-> "input", type |-> "file"],
      [tag |-> "input", type |-> "radio"], [tag |-> "input", type |-> "checkbox"]>>

\* query_selector_all's test: the tag, and the type attribute where the
\* selector names one.
SelectorMatches(selector, element) ==
    /\ element.tag = selector.tag
    /\ selector.type # "" => element.type = selector.type

\* The mutant of _analyze_field: the date rule is tested before the email rule.
_analyze_field_date_first(element, at) ==
    LET name == Or(element.name, Or(element.id, << >>))
        raw  == IF element.type # "" THEN element.type ELSE "text"
        placeholder == element.placeholder
        field_type ==
            IF Contains(lower(name), <<"d","a","t","e">>) \/ raw = "date" THEN "date"
            ELSE IF Contains(lower(name), <<"e","m","a","i","l">>) \/ Contains(lower(placeholder), <<"e","m","a","i","l">>)
            THEN "email"
            ELSE IF Contains(lower(name), <<"p","h","o","n","e">>) \/ Contains(lower(name), <<"t","e","l">>)
            THEN "phone"
            ELSE IF raw = "file" THEN "file"
            ELSE IF raw \in {"radio", "checkbox"} THEN "select"
            ELSE raw
    IN [name |-> name, type |-> field_type, label |-> element.label,
        placeholder |-> placeholder, required |-> element.required, element |-> at]

\* form_filler.py:89-119.  The FormField also carries the position of its
\* element in the page, which the code does not keep.
_analyze_field(element, at) ==
    LET name == Or(element.name, Or(element.id, << >>))
        raw  == IF element.type # "" THEN element.type ELSE "text"
        placeholder == element.placeholder
        field_type ==
            IF Contains(lower(name), <<"e","m","a","i","l">>) \/ Contains(lower(placeholder), <<"e","m","a","i","l">>)
            THEN "email"
            ELSE IF Contains(lower(name), <<"p","h","o","n","e">>) \/ Contains(lower(name), <<"t","e","l">>)
            THEN "phone"
            ELSE IF Contains(lower(name), <<"d","a","t","e">>) \/ raw = "date" THEN "date"
            ELSE IF raw = "file" THEN "file"
            ELSE IF raw \in {"radio", "checkbox"} THEN "select"
            ELSE raw
    IN [name |-> name, type |-> field_type, label |-> element.label,
        placeholder |-> placeholder, required |-> element.required, element |-> at]

\* form_filler.py:125-144: the label text, '' when the lookup raises.
_get_field_label(element, found) == IF found THEN element.label ELSE << >>

\* The mutant of Analyzed: a failed label lookup fails the analysis.
AnalyzedLabelFatal(element, at, read, found) ==
    IF read /\ found THEN <<_analyze_field(element, at)>> ELSE << >>

\* form_filler.py:79-81 with the except of form_filler.py:121-123: the field
\* of an element, or nothing when reading its attributes raises; found is
\* whether the label lookup returns.
Analyzed(element, at, read, found) ==
    IF read
    THEN <<_analyze_field([element EXCEPT !.label = _get_field_label(element, found)], at)>>
    ELSE << >>

\* The fields of the elements one selector matches, in document order
\* (form_filler.py:76-81).
FieldsOf(pg, selector, failing, unlabeled) ==
    LET RECURSIVE From(_)
        From(at) ==
            IF at > Len(pg) THEN << >>
            ELSE (IF SelectorMatches(selector, pg[at])
                  THEN Analyzed(pg[at], at, at \notin failing, at \notin unlabeled)
                  ELSE << >>) \o From(at + 1)
    IN From(1)

\* form_filler.py:73-84: selector by selector.
detect_form_fields(pg, failing, unlabeled) ==
    LET RECURSIVE From(_)
        From(s) ==
            IF s > Len(field_selectors) THEN << >>
            ELSE FieldsOf(pg, field_selectors[s], failing, unlabeled) \o From(s + 1)
    IN From(1)

\* A scan in which nothing failed.
NoFaults == [failing |-> {}, unlabeled |-> {}]

\* ------------------------------------------------------------------ fill_info
\* form_filler.py:150-159, in the order of the dict.
field_mappings ==
    <<[info_key |-> "first_name",
       patterns |-> <<<<"f","i","r","s","t">>, <<"f","n","a","m","e">>, <<"g","i","v","e","n">>>>],
      [info_key |-> "last_name",
       patterns |-> <<<<"l","a","s","t">>, <<"l","n","a","m","e">>, <<"s","u","r","n","a","m","e">>, <<"f","a","m","i","l","y">>>>],
      [info_key |-> "email",
       patterns |-> <<<<"e","m","a","i","l">>, <<"e","-","m","a","i","l">>, <<"m","a","i","l">>>>],
      [info_key |-> "phone",
       patterns |-> <<<<"p","h","o","n","e">>, <<"t","e","l","e","p","h","o","n","e">>, <<"m","o","b","i","l","e">>, <<"c","e","l","l">>>>],
      [info_key |-> "address",
       patterns |-> <<<<"a","d","d","r","e","s","s">>, <<"s","t","r","e","e","t">>, <<"a","d","d","r">>>>],
      [info_key |-> "city",
       patterns |-> <<<<"c","i","t","y">>, <<"t","o","w","n">>>>],
      [info_key |-> "state",
       patterns |-> <<<<"s","t","a","t","e">>, <<"p","r","o","v","i","n","c","e">>, <<"r","e","g","i","o","n">>>>],
      [info_key |-> "zip_code",
       patterns |-> <<<<"z","i","p">>, <<"p","o","s","t","a","l">>, <<"z","i","p","c","o","d","e">>>>]>>

\* form_filler.py:179-194.
Attribute(info, info_key) ==
    CASE info_key = "first_name" -> info.first_name
      [] info_key = "last_name" -> info.last_name
      [] info_key = "email" -> info.email
      [] info_key = "phone" -> info.phone
      [] info_key = "address" -> info.address.street
      [] info_key = "city" -> info.address.city
      [] info_key = "state" -> info.address.state
      [] info_key = "zip_code" -> info.address.zip_code

\* form_filler.py:178: a pattern is in the name or in the label.
PatternHits(field, pattern) ==
    \/ Contains(lower(field.name), pattern)
    \/ Contains(lower(field.label), pattern)

\* The mutant of _get_field_value: the last rule that matches gives the value.
_get_field_value_last(field, info, mappings) ==
    LET RECURSIVE From(_)
        From(rule) ==
            IF rule < 1 THEN None
            ELSE IF \E p \in 1..Len(mappings[rule].patterns) :
                        PatternHits(field, mappings[rule].patterns[p])
            THEN <<Attribute(info, mappings[rule].info_key)>>
            ELSE From(rule - 1)
    IN From(Len(mappings))

\* form_filler.py:170-196: the first rule, in table order, one of whose
\* patterns is in the name or the label.
_get_field_value(field, info, mappings) ==
    LET RECURSIVE From(_)
        From(rule) ==
            IF rule > Len(mappings) THEN None
            ELSE IF \E p \in 1..Len(mappings[rule].patterns) :
                        PatternHits(field, mappings[rule].patterns[p])
            THEN <<Attribute(info, mappings[rule].info_key)>>
            ELSE From(rule + 1)
    IN From(1)

\* form_filler.py:162: the types fill_personal_info maps.
Eligible(field) == field.type \in {"text", "email", "tel"}

\* The element page.fill acts on (form_filler.py:201): the first one whose name
\* attribute is the field's name or, for a field without a name, whose
\* placeholder attribute is the field's placeholder; 0 when there is none.
Target(pg, field) ==
    LET hits == {at \in 1..Len(pg) :
                    IF field.name # << >> THEN pg[at].name = field.name
                    ELSE field.placeholder # << >> /\ pg[at].placeholder = field.placeholder}
    IN IF hits = {} THEN 0 ELSE CHOOSE at \in hits : \A other \in hits : at <= other

\* The mutant of _fill_field: a failed fill is raised to the caller.
_fill_field_raises(pg, field, value, ok) ==
    LET at == Target(pg, field)
        filled == ok /\ at # 0
    IN [page |-> IF filled THEN [pg EXCEPT ![at].value = value] ELSE pg,
        filled |-> filled, raised |-> ~filled]

\* form_filler.py:198-212: set_input_files or fill on the selector's element;
\* a missing element or a rejected action raises in the driver and is caught.
_fill_field(pg, field, value, ok) ==
    LET at == Target(pg, field)
        filled == ok /\ at # 0
    IN [page |-> IF filled THEN [pg EXCEPT ![at].value = value] ELSE pg,
        filled |-> filled, raised |-> FALSE]

\* detect_form_fields returns (form_filler.py:83-84) and fill_personal_info is
\* called (main.py:252-256).
DetectFormFields(failing, unlabeled) ==
    /\ fpc = "detect"
    /\ form_fields' = detect_form_fields(page, failing, unlabeled)
    /\ faults' = [failing |-> failing, unlabeled |-> unlabeled]
    /\ fpc' = "personal"
    /\ cursor' = 1
    /\ UNCHANGED <<page, personal_info, attempts>>

\* page.query_selector_all raises: detect_form_fields raises
\* (form_filler.py:86-87) and self.form_fields is not assigned.
DetectRaises ==
    /\ fpc = "detect"
    /\ fpc' = "raised"
    /\ UNCHANGED <<page, personal_info, form_fields, attempts, cursor, faults>>

\* One turn of the loop of fill_personal_info (form_filler.py:161-165); ok is
\* whether the driver accepts the fill.  An exception that leaves _fill_field
\* is raised again at form_filler.py:167-168.
FillPersonalField(ok) ==
    /\ fpc = "personal"
    /\ cursor <= Len(form_fields)
    /\ LET field == form_fields[cursor]
           value == IF Eligible(field)
                    THEN _get_field_value(field, personal_info, field_mappings)
                    ELSE None
       IN IF value # None /\ value[1] # ""
          THEN LET done == _fill_field(page, field, value[1], ok) IN
                 /\ page' = done.page
                 /\ attempts' = Append(attempts,
                        [field |-> cursor, value |-> value[1], filled |-> done.filled])
                 /\ fpc' = IF done.raised THEN "raised" ELSE fpc
                 /\ cursor' = IF done.raised THEN cursor ELSE cursor + 1
          ELSE /\ cursor' = cursor + 1
               /\ UNCHANGED <<page, attempts, fpc>>
    /\ UNCHANGED <<personal_info, form_fields, faults>>

\* The loop is over: fill_personal_info returns.
FillPersonalReturns ==
    /\ fpc = "personal"
    /\ cursor > Len(form_fields)
    /\ fpc' = "returned"
    /\ UNCHANGED <<page, personal_info, form_fields, attempts, cursor, faults>>

\* The form filler at rest: the state of the page stages where the runs alone
\* are followed.
FormIdle ==
    /\ page = << >> /\ personal_info = << >> /\ form_fields = << >>
    /\ attempts = << >> /\ fpc = "idle" /\ cursor = 0 /\ faults = NoFaults

\* The other fill stages at rest.
FillIdle ==
    /\ jobs = << >> /\ diversity = << >> /\ textareas = << >> /\ llm_calls = << >>

\* ------------------------------------------------------------------ submit_application
\* The number of controls of the page that submit_application searches.
MaxControls == 2

\* form_filler.py:305-313: the tag, the type attribute, the text of has-text
\* and the part of the class attribute that a selector asks for ("" and << >>
\* where it asks for none).
Selector(tag, type, has_text, class) ==
    [tag |-> tag, type |-> type, has_text |-> has_text, class |-> class]

submit_selectors ==
    <<Selector("button", "submit", << >>, << >>),
      Selector("input", "submit", << >>, << >>),
      Selector("button", "", <<"S","u","b","m","i","t">>, << >>),
      Selector("button", "", <<"A","p","p","l","y">>, << >>),
      Selector("button", "", <<"S","e","n","d">>, << >>),
      Selector("", "", << >>, <<"s","u","b","m","i","t">>),
      Selector("", "", << >>, <<"a","p","p","l","y">>)>>

\* Whether a control is matched by a selector: has-text compares without case,
\* an attribute selector with case.
ControlMatches(selector, control) ==
    /\ selector.tag # "" => control.tag = selector.tag
    /\ selector.type # "" => control.type = selector.type
    /\ selector.has_text # << >> =>
           Contains(lower(control.text), lower(selector.has_text))
    /\ selector.class # << >> => Contains(control.class, selector.class)

\* page.query_selector: the first match in document order, 0 for None.
query_selector(ctrls, selector) ==
    LET hits == {at \in 1..Len(ctrls) : ControlMatches(selector, ctrls[at])}
    IN IF hits = {} THEN 0 ELSE CHOOSE at \in hits : \A other \in hits : at <= other

\* The controls a page is made of.
Controls ==
    {[tag |-> "button", type |-> "submit", text |-> <<"S","u","b","m","i","t">>, class |-> << >>],
     [tag |-> "input", type |-> "submit", text |-> << >>, class |-> << >>],
     [tag |-> "button", type |-> "button", text |-> <<"A","p","p","l","y"," ","n","o","w">>, class |-> << >>],
     [tag |-> "div", type |-> "", text |-> << >>, class |-> <<"b","t","n","-","a","p","p","l","y">>],
     [tag |-> "button", type |-> "button", text |-> <<"S","E","N","D">>, class |-> <<"s","u","b","m","i","t","-","b","t","n">>],
     [tag |-> "a", type |-> "", text |-> <<"H","e","l","p">>, class |-> <<"n","a","v">>]}

ControlPages == UNION {[1..n -> Controls] : n \in 0..MaxControls}

\* What the page shows after the click.
Contents ==
    {<<"T","h","a","n","k"," ","y","o","u"," ","f","o","r"," ","a","p","p","l","y","i","n","g">>,
     <<"A","P","P","L","I","C","A","T","I","O","N"," ","S","U","B","M","I","T","T","E","D">>,
     <<"S","u","b","m","i","s","s","i","o","n"," ","u","n","s","u","c","c","e","s","s","f","u","l">>,
     <<"P","l","e","a","s","e"," ","c","o","r","r","e","c","t"," ","t","h","e"," ","e","r","r","o","r","s">>,
     << >>}

\* form_filler.py:326-331.
success_indicators ==
    <<<<"T","h","a","n","k"," ","y","o","u">>,
      <<"A","p","p","l","i","c","a","t","i","o","n"," ","s","u","b","m","i","t","t","e","d">>,
      <<"S","u","c","c","e","s","s">>,
      <<"S","u","b","m","i","t","t","e","d"," ","s","u","c","c","e","s","s","f","u","l","l","y">>>>

\* The mutant of is_successful: the comparison keeps the case.
is_successful_exact(text) ==
    \E i \in 1..Len(success_indicators) : Contains(text, success_indicators[i])

\* form_filler.py:334.
is_successful(text) ==
    \E i \in 1..Len(success_indicators) :
        Contains(lower(text), lower(success_indicators[i]))


\* The mutant of QuerySelector: every selector is consulted and the last match
\* is kept.
QuerySelectorLast(ok) ==
    /\ spc = "query"
    /\ LET s == Len(consulted) + 1
           at == query_selector(controls, submit_selectors[s])
           button == IF at # 0 THEN at ELSE submit_button
       IN IF ~ok
          THEN /\ outcome' = <<submit_application(FALSE, FALSE, FALSE)>>
               /\ spc' = "returned"
               /\ UNCHANGED <<consulted, submit_button>>
          ELSE /\ consulted' = Append(consulted, s)
               /\ submit_button' = button
               /\ IF s < Len(submit_selectors)
                  THEN UNCHANGED <<outcome, spc>>
                  ELSE IF button # 0
                  THEN spc' = "click" /\ outcome' = outcome
                  ELSE /\ outcome' = <<submit_application(FALSE, TRUE, FALSE)>>
                       /\ spc' = "returned"
    /\ UNCHANGED <<controls, page_content, clicked, content>>

\* One turn of the loop of form_filler.py:316-319 and, when it ends without a
\* match, the return of form_filler.py:342-346; ok is whether the driver call
\* returns (a raise is caught at form_filler.py:348).
QuerySelector(ok) ==
    /\ spc = "query"
    /\ LET s == Len(consulted) + 1
           at == query_selector(controls, submit_selectors[s])
       IN IF ~ok
          THEN /\ outcome' = <<submit_application(FALSE, FALSE, FALSE)>>
               /\ spc' = "returned"
               /\ UNCHANGED <<consulted, submit_button>>
          ELSE /\ consulted' = Append(consulted, s)
               /\ submit_button' = at
               /\ IF at # 0
                  THEN spc' = "click" /\ outcome' = outcome
                  ELSE IF s < Len(submit_selectors)
                  THEN UNCHANGED <<outcome, spc>>
                  ELSE /\ outcome' = <<submit_application(FALSE, TRUE, FALSE)>>
                       /\ spc' = "returned"
    /\ UNCHANGED <<controls, page_content, clicked, content>>

\* form_filler.py:322-323: the click, then the wait.
Click(ok) ==
    /\ spc = "click"
    /\ IF ok
       THEN /\ clicked' = submit_button
            /\ spc' = "content"
            /\ outcome' = outcome
       ELSE /\ outcome' = <<submit_application(TRUE, FALSE, FALSE)>>
            /\ spc' = "returned"
            /\ clicked' = clicked
    /\ UNCHANGED <<controls, page_content, consulted, submit_button, content>>

\* form_filler.py:333-340: the content is fetched and searched.
Content(ok) ==
    /\ spc = "content"
    /\ IF ok
       THEN /\ content' = <<page_content>>
            /\ outcome' = <<submit_application(TRUE, TRUE, is_successful(page_content))>>
       ELSE /\ content' = content
            /\ outcome' = <<submit_application(TRUE, FALSE, FALSE)>>
    /\ spc' = "returned"
    /\ UNCHANGED <<controls, page_content, consulted, submit_button, clicked>>

\* submit_application at rest.
SubmitIdle ==
    /\ controls = << >> /\ page_content = << >> /\ consulted = << >>
    /\ submit_button = 0 /\ clicked = 0 /\ content = None /\ outcome = None
    /\ spc = "idle"

\* The runs at rest: no request has arrived.
RunsIdle ==
    /\ now = 0
    /\ application_status = [x \in {} |-> InitialStatus]
    /\ runs = << >>
    /\ fillers = [f \in {} |-> NewFillerObject]
    /\ used = {}

\* The request of a run whose parts are drawn where they are tested.
NoRequest == << >>

\* The optional parts of a request: whether each is there.
Requests == [work_history : BOOLEAN, diversity_info : BOOLEAN, resume_data : BOOLEAN]

\* ------------------------------------------------------------------ the system
Init ==
    /\ api_key \in BOOLEAN
    /\ acquire \in BOOLEAN
    /\ request = NoRequest
    /\ RunsIdle /\ FormIdle /\ FillIdle /\ SubmitIdle

\* The steps of the task of run r.
TaskStep(r) ==
    /\ r \in RunIds
    /\ \/ Begin(r)
       \/ \E ok \in BOOLEAN : StartBrowser(r, ok)
       \/ \E ok \in BOOLEAN : Navigate(r, ok)
       \/ \E ok \in BOOLEAN : DetectFields(r, ok)
       \/ \E work_history, diversity_info, resume_data \in BOOLEAN :
            FillPersonal(r, work_history, diversity_info, resume_data)
       \/ \E diversity_info, resume_data \in BOOLEAN :
            FillWorkHistory(r, diversity_info, resume_data)
       \/ \E resume_data \in BOOLEAN : FillDiversity(r, resume_data)
       \/ FillOpenEnded(r)
       \/ \E found, ok, success \in BOOLEAN : Submit(r, found, ok, success)
       \/ \E ok \in BOOLEAN : Close(r, ok)

\* Some task runs on.
Tasks == \E r \in 1..MaxRuns : TaskStep(r)

\* The steps that change the state: a request arrives, or a task runs on.
Run ==
    \/ \E url \in Urls, dt \in Elapsed : start_application(url, dt)
    \/ \E r \in RunIds : Begin(r)
    \/ \E r \in RunIds, ok \in BOOLEAN : StartBrowser(r, ok)
    \/ \E r \in RunIds, ok \in BOOLEAN : Navigate(r, ok)
    \/ \E r \in RunIds, ok \in BOOLEAN : DetectFields(r, ok)
    \/ \E r \in RunIds, work_history \in BOOLEAN, diversity_info \in BOOLEAN,
          resume_data \in BOOLEAN :
         FillPersonal(r, work_history, diversity_info, resume_data)
    \/ \E r \in RunIds, diversity_info \in BOOLEAN, resume_data \in BOOLEAN :
         FillWorkHistory(r, diversity_info, resume_data)
    \/ \E r \in RunIds, resume_data \in BOOLEAN : FillDiversity(r, resume_data)
    \/ \E r \in RunIds : FillOpenEnded(r)
    \/ \E r \in RunIds, found \in BOOLEAN, ok \in BOOLEAN, success \in BOOLEAN :
         Submit(r, found, ok, success)
    \/ \E r \in RunIds, ok \in BOOLEAN : Close(r, ok)

Next ==
    \/ Run
    \/ \E app_id \in AppIds : Poll(app_id)

Spec == Init /\ [][Next]_vars

\* The event loop runs a task whenever one can run, and every awaited call
\* returns or fails.  A poll changes nothing, so that the behaviours are those
\* of Spec.
LiveSpec == Init /\ [][Run]_vars /\ WF_vars(Tasks)

\* ------------------------------------------------------------------ one filler on one page
\* detect_form_fields and fill_personal_info on a page, for a profile.
FieldInit ==
    /\ page \in Pages
    /\ personal_info \in Profiles
    /\ form_fields = << >> /\ attempts = << >> /\ fpc = "detect" /\ cursor = 0
    /\ faults = NoFaults
    /\ api_key = TRUE /\ acquire = TRUE
    /\ request = NoRequest
    /\ RunsIdle /\ FillIdle /\ SubmitIdle

FieldNext ==
    \/ DetectFormFields({}, {}) /\ UNCHANGED <<runVars, request, fillVars, submitVars>>
    \/ \E ok \in BOOLEAN : FillPersonalField(ok) /\ UNCHANGED <<runVars, request, fillVars, submitVars>>
    \/ FillPersonalReturns /\ UNCHANGED <<runVars, request, fillVars, submitVars>>

FieldSpec == FieldInit /\ [][FieldNext]_vars

\* The elements of a scanned page: also a number input and a select.
ScanElements ==
    Elements \cup
    {Element("input", "number", <<"y","e","a","r","s">>, << >>, << >>, <<"Y","e","a","r","s"," ","o","f"," ","e","x","p","e","r","i","e","n","c","e">>),
     Element("select", "", <<"c","o","u","n","t","r","y">>, << >>, << >>, << >>)}

ScanPages == UNION {[1..n -> ScanElements] : n \in 0..MaxFields}

\* detect_form_fields on a page, with the elements whose analysis or label
\* lookup fails.
DetectInit ==
    /\ page \in ScanPages
    /\ personal_info = << >>
    /\ form_fields = << >> /\ attempts = << >> /\ fpc = "detect" /\ cursor = 0
    /\ faults = NoFaults
    /\ api_key = TRUE /\ acquire = TRUE
    /\ request = NoRequest
    /\ RunsIdle /\ FillIdle /\ SubmitIdle

DetectNext ==
    \/ \E failing \in SUBSET (1..Len(page)) :
         \E unlabeled \in SUBSET {at \in 1..Len(page) : page[at].label # << >>} :
            /\ DetectFormFields(failing, unlabeled)
            /\ UNCHANGED <<runVars, request, fillVars, submitVars>>
    \/ DetectRaises /\ UNCHANGED <<runVars, request, fillVars, submitVars>>

DetectSpec == DetectInit /\ [][DetectNext]_vars

\* submit_application on a page.
SubmitInit ==
    /\ controls \in ControlPages
    /\ page_content \in Contents
    /\ consulted = << >> /\ submit_button = 0 /\ clicked = 0
    /\ content = None /\ outcome = None /\ spc = "query"
    /\ api_key = TRUE /\ acquire = TRUE
    /\ request = NoRequest
    /\ RunsIdle /\ FormIdle /\ FillIdle

SubmitNext ==
    \/ \E ok \in BOOLEAN : QuerySelector(ok) /\ UNCHANGED <<runVars, request, formVars, fillVars>>
    \/ \E ok \in BOOLEAN : Click(ok) /\ UNCHANGED <<runVars, request, formVars, fillVars>>
    \/ \E ok \in BOOLEAN : Content(ok) /\ UNCHANGED <<runVars, request, formVars, fillVars>>

SubmitSpec == SubmitInit /\ [][SubmitNext]_vars

\* One run of process_application, for a request whose optional parts are
\* fixed when it arrives.
StageInit ==
    /\ api_key \in BOOLEAN
    /\ acquire \in BOOLEAN
    /\ request \in Requests
    /\ RunsIdle /\ FormIdle /\ FillIdle /\ SubmitIdle

StageNext ==
    \/ runs = << >> /\ \E url \in Urls, dt \in Elapsed : start_application(url, dt)
    \/ \E r \in RunIds : Begin(r)
    \/ \E r \in RunIds, ok \in BOOLEAN : StartBrowser(r, ok)
    \/ \E r \in RunIds, ok \in BOOLEAN : Navigate(r, ok)
    \/ \E r \in RunIds, ok \in BOOLEAN : DetectFields(r, ok)
    \/ \E r \in RunIds :
         FillPersonal(r, request.work_history, request.diversity_info, request.resume_data)
    \/ \E r \in RunIds : FillWorkHistory(r, request.diversity_info, request.resume_data)
    \/ \E r \in RunIds : FillDiversity(r, request.resume_data)
    \/ \E r \in RunIds : FillOpenEnded(r)
    \/ \E r \in RunIds, found \in BOOLEAN, ok \in BOOLEAN, success \in BOOLEAN :
         Submit(r, found, ok, success)
    \/ \E r \in RunIds, ok \in BOOLEAN : Close(r, ok)

StageSpec == StageInit /\ [][StageNext]_vars

\* ================================================================== fill_work_history
\* The number of entries of a work history.
MaxJobs == 2

\* The WorkExperience objects of a profile (models.py:46-51).
Jobs ==
    {[company |-> "Acme", position |-> "Engineer", start_date |-> "2020-01"],
     [company |-> "Globex", position |-> "Manager", start_date |-> "2018-06"]}

\* The work histories process_application passes on: the non-empty ones
\* (main.py:263).
WorkHistories == UNION {[1..n -> Jobs] : n \in 1..MaxJobs}

\* The elements of a page with work history inputs.
WorkElements ==
    {Element("input", "text", <<"c","o","m","p","a","n","y","_","1">>, << >>, << >>, << >>),
     Element("input", "text", <<"p","o","s","i","t","i","o","n","_","1">>, << >>, << >>, << >>),
     Element("input", "text", <<"s","t","a","r","t","_","d","a","t","e","_","1">>, << >>, << >>, << >>),
     Element("input", "text", <<"c","o","m","p","a","n","y","_","2">>, << >>, << >>, << >>),
     Element("input", "text", <<"e","m","p","l","o","y","e","r">>, << >>, << >>, << >>)}

WorkPages == UNION {[1..n -> WorkElements] : n \in 0..MaxFields}

Digits == <<"0","1","2","3","4","5","6","7","8","9">>

\* str(n) for a natural number.
RECURSIVE Str(_)
Str(n) == IF n < 10 THEN <<Digits[n + 1]>> ELSE Str(n \div 10) \o <<Digits[(n % 10) + 1]>>

\* query_selector_all(f'[name*="{word}"][name*="{i+1}"]') for the entry at
\* index = i + 1: the positions of the elements whose name holds word and the
\* decimal of index (form_filler.py:219-221).
NameHolds(pg, word, index) ==
    {at \in 1..Len(pg) : Contains(pg[at].name, word) /\ Contains(pg[at].name, Str(index))}

\* job[key] (form_filler.py:224-228) for a job that is a WorkExperience:
\* pydantic's BaseModel has no __getitem__ and the subscript raises TypeError,
\* for which None stands.
Subscript(job, key) == None

\* One of the three fills of an entry (form_filler.py:223-228) on st, the
\* page, the attempts and whether something raised: nothing when the selector
\* matched no element, else the subscript and the fill of the first match.
FillFirst(st, hits, value, ok, index) ==
    IF st.raised \/ hits = {} THEN st
    ELSE IF value = None \/ ~ok THEN [st EXCEPT !.raised = TRUE]
    ELSE LET at == CHOOSE a \in hits : \A other \in hits : a <= other IN
         [st EXCEPT !.page[at].value = value[1],
                    !.attempts = Append(@, [field |-> at, value |-> value[1],
                                            filled |-> TRUE, entry |-> index])]

\* One turn of the loop of fill_work_history (form_filler.py:217-228); ok is
\* whether the driver calls return.  A raise leaves the loop and is caught at
\* form_filler.py:230: fill_work_history returns.
FillWorkEntry(ok) ==
    /\ fpc = "work_history"
    /\ cursor <= Len(jobs)
    /\ LET job == jobs[cursor]
           st0 == [page |-> page, attempts |-> attempts, raised |-> ~ok]
           st1 == FillFirst(st0, NameHolds(page, <<"c","o","m","p","a","n","y">>, cursor),
                            Subscript(job, "company"), ok, cursor)
           st2 == FillFirst(st1, NameHolds(page, <<"p","o","s","i","t","i","o","n">>, cursor),
                            Subscript(job, "position"), ok, cursor)
           st3 == FillFirst(st2, NameHolds(page, <<"d","a","t","e">>, cursor),
                            Subscript(job, "start_date"), ok, cursor)
       IN /\ page' = st3.page
          /\ attempts' = st3.attempts
          /\ fpc' = IF st3.raised THEN "returned" ELSE fpc
          /\ cursor' = IF st3.raised THEN cursor ELSE cursor + 1
    /\ UNCHANGED <<personal_info, form_fields, faults, fillVars>>

\* The loop is over: fill_work_history returns.
FillWorkReturns ==
    /\ fpc = "work_history"
    /\ cursor > Len(jobs)
    /\ fpc' = "returned"
    /\ UNCHANGED <<page, personal_info, form_fields, attempts, cursor, faults, fillVars>>

\* fill_work_history on a page, for a work history.
WorkInit ==
    /\ page \in WorkPages
    /\ jobs \in WorkHistories
    /\ personal_info = << >> /\ form_fields = << >> /\ attempts = << >>
    /\ fpc = "work_history" /\ cursor = 1 /\ faults = NoFaults
    /\ diversity = << >> /\ textareas = << >> /\ llm_calls = << >>
    /\ api_key = TRUE /\ acquire = TRUE
    /\ request = NoRequest
    /\ RunsIdle /\ SubmitIdle

WorkNext ==
    \/ \E ok \in BOOLEAN : FillWorkEntry(ok) /\ UNCHANGED <<runVars, request, submitVars>>
    \/ FillWorkReturns /\ UNCHANGED <<runVars, request, submitVars>>

WorkSpec == WorkInit /\ [][WorkNext]_vars

\* ================================================================== fill_diversity_info
\* The DiversityInfo objects of a profile (models.py:53-57); the second holds
\* the defaults.
DiversityInfos ==
    {[veteran_status |-> "Yes", disability_status |-> "No",
      race_ethnicity |-> "Asian", gender |-> "Female"],
     [veteran_status |-> "No", disability_status |-> "No",
      race_ethnicity |-> "Prefer not to say", gender |-> "Prefer not to say"]}

\* diversity_patterns (form_filler.py:237-242), in the order the two loops
\* at form_filler.py:248-249 go through it.
diversity_patterns ==
    <<[category |-> "veteran", pattern |-> <<"v","e","t","e","r","a","n">>],
      [category |-> "veteran", pattern |-> <<"m","i","l","i","t","a","r","y">>],
      [category |-> "veteran", pattern |-> <<"a","r","m","e","d"," ","f","o","r","c","e","s">>],
      [category |-> "disability", pattern |-> <<"d","i","s","a","b","i","l","i","t","y">>],
      [category |-> "disability", pattern |-> <<"d","i","s","a","b","l","e","d">>],
      [category |-> "disability", pattern |-> <<"a","c","c","o","m","m","o","d","a","t","i","o","n">>],
      [category |-> "race", pattern |-> <<"r","a","c","e">>],
      [category |-> "race", pattern |-> <<"e","t","h","n","i","c","i","t","y">>],
      [category |-> "race", pattern |-> <<"d","i","v","e","r","s","i","t","y">>],
      [category |-> "gender", pattern |-> <<"g","e","n","d","e","r">>],
      [category |-> "gender", pattern |-> <<"s","e","x">>]>>

\* The elements of a page with diversity questions.
DiversityElements ==
    {Element("input", "text", <<"g","e","n","d","e","r">>, << >>, << >>, << >>),
     Element("input", "text", <<"s","e","x">>, << >>, << >>, << >>),
     Element("input", "text", <<"v","e","t","e","r","a","n","_","s","t","a","t","u","s">>, << >>, << >>, << >>),
     Element("input", "text", <<"q","7">>, << >>, << >>, <<"R","a","c","e"," ","/"," ","E","t","h","n","i","c","i","t","y">>),
     Element("input", "text", <<"c","i","t","y">>, << >>, << >>, << >>)}

DiversityPages == UNION {[1..n -> DiversityElements] : n \in 0..MaxFields}

\* diversity_info.get(category, default) (form_filler.py:251) for a
\* diversity_info that is a DiversityInfo: a BaseModel has no attribute get
\* and the call raises AttributeError, for which None stands.
Get(info, category, default) == None

\* The patterns that hit a field, in order (form_filler.py:248-250).
Matches(field) == SelectSeq(diversity_patterns, LAMBDA rule : PatternHits(field, rule.pattern))

\* The body at form_filler.py:251-252 for each hit of one field, on st (the
\* page, the attempts and whether something raised): there is no break, so
\* every hit looks the value up and fills the field.
RECURSIVE FillMatches(_, _, _, _, _)
FillMatches(st, info, at, matches, ok) ==
    IF matches = << >> \/ st.raised THEN st
    ELSE LET value == Get(info, Head(matches).category, "Prefer not to say")
         IN IF value = None THEN [st EXCEPT !.raised = TRUE]
            ELSE LET done == _fill_field(st.page, form_fields[at], value[1], ok)
                 IN FillMatches([page |-> done.page,
                                 attempts |-> Append(st.attempts,
                                     [field |-> at, value |-> value[1], filled |-> done.filled,
                                      category |-> Head(matches).category]),
                                 raised |-> FALSE],
                                info, at, Tail(matches), ok)

\* One turn of the loop of fill_diversity_info over the known fields
\* (form_filler.py:244-252); ok is whether the driver's fill returns.  A
\* raise leaves the loops and is caught at form_filler.py:254:
\* fill_diversity_info returns.
FillDiversityField(ok) ==
    /\ fpc = "diversity"
    /\ cursor <= Len(form_fields)
    /\ LET st == FillMatches([page |-> page, attempts |-> attempts, raised |-> FALSE],
                             diversity[1], cursor, Matches(form_fields[cursor]), ok)
       IN /\ page' = st.page
          /\ attempts' = st.attempts
          /\ fpc' = IF st.raised THEN "returned" ELSE fpc
          /\ cursor' = IF st.raised THEN cursor ELSE cursor + 1
    /\ UNCHANGED <<personal_info, form_fields, faults, fillVars>>

\* The loop is over: fill_diversity_info returns.
FillDiversityReturns ==
    /\ fpc = "diversity"
    /\ cursor > Len(form_fields)
    /\ fpc' = "returned"
    /\ UNCHANGED <<page, personal_info, form_fields, attempts, cursor, faults, fillVars>>

\* fill_diversity_info on a page whose fields were detected, for the
\* profile's DiversityInfo (main.py:271-272).
DiversityInit ==
    /\ page \in DiversityPages
    /\ form_fields = detect_form_fields(page, {}, {})
    /\ \E info \in DiversityInfos : diversity = <<info>>
    /\ personal_info = << >> /\ attempts = << >>
    /\ fpc = "diversity" /\ cursor = 1 /\ faults = NoFaults
    /\ jobs = << >> /\ textareas = << >> /\ llm_calls = << >>
    /\ api_key = TRUE /\ acquire = TRUE
    /\ request = NoRequest
    /\ RunsIdle /\ SubmitIdle

DiversityNext ==
    \/ \E ok \in BOOLEAN : FillDiversityField(ok) /\ UNCHANGED <<runVars, request, submitVars>>
    \/ FillDiversityReturns /\ UNCHANGED <<runVars, request, submitVars>>

DiversitySpec == DiversityInit /\ [][DiversityNext]_vars

\* ================================================================== fill_open_ended_questions
\* A textarea of the page: the text of the label and of the heading under its
\* parent, None for an element that is not there, and what was filled in.
Textarea(label, heading) == [label |-> label, heading |-> heading, value |-> << >>]

\* The textareas query_selector_all('textarea') can find (form_filler.py:261).
Textareas ==
    {Textarea(<<<<"W","h","y"," ","d","o"," ","y","o","u"," ","w","a","n","t"," ","t","o"," ","w","o","r","k"," ","h","e","r","e","?">>>>, None),
     Textarea(None, <<<<"G","r","e","a","t","e","s","t"," ","s","t","r","e","n","g","t","h">>>>),
     Textarea(None, None),
     Textarea(<< << >> >>, <<<<"T","e","l","l"," ","m","e"," ","a","b","o","u","t"," ","y","o","u","r","s","e","l","f">>>>)}

TextareaLists == UNION {[1..n -> Textareas] : n \in 0..MaxFields}

\* form_filler.py:281-299: the text of the label under the parent, or '' for
\* a label without text; without a label the same of the heading; '' without
\* both and, found being FALSE, when a lookup raises.
_get_question_text(element, found) ==
    IF ~found THEN << >>
    ELSE IF element.label # None THEN element.label[1]
    ELSE IF element.heading # None THEN element.heading[1]
    ELSE << >>

\* The rules of _generate_fallback_response (llm_service.py:76-92), in order.
fallback_rules ==
    <<[phrase |-> <<"w","h","y"," ","d","o"," ","y","o","u"," ","w","a","n","t"," ","t","o"," ","w","o","r","k">>,
       response |-> "I am excited about this opportunity because it aligns with my career goals and allows me to contribute my skills and experience to a dynamic team. I am particularly drawn to the company's mission and the chance to work on innovative projects."],
      [phrase |-> <<"g","r","e","a","t","e","s","t"," ","s","t","r","e","n","g","t","h">>,
       response |-> "My greatest strength is my ability to quickly learn new technologies and adapt to changing requirements. I am also highly organized and detail-oriented, which helps me deliver high-quality work consistently."],
      [phrase |-> <<"g","r","e","a","t","e","s","t"," ","w","e","a","k","n","e","s","s">>,
       response |-> "My greatest weakness is that I sometimes spend too much time perfecting details. However, I have learned to balance this with meeting deadlines and focusing on the most important aspects of a project."],
      [phrase |-> <<"s","a","l","a","r","y"," ","e","x","p","e","c","t","a","t","i","o","n">>,
       response |-> "I am open to discussing salary based on the responsibilities of the role and my experience level. I am primarily focused on finding the right opportunity to grow and contribute."],
      [phrase |-> <<"t","e","l","l"," ","m","e"," ","a","b","o","u","t"," ","y","o","u","r","s","e","l","f">>,
       response |-> "I am a passionate professional with experience in software development. I enjoy solving complex problems and working collaboratively with teams. I am always eager to learn new technologies and take on challenging projects."],
      [phrase |-> <<"e","x","p","e","r","i","e","n","c","e"," ","w","i","t","h">>,
       response |-> "I have hands-on experience with various technologies and frameworks. I am comfortable working with both frontend and backend development, and I enjoy learning new tools and methodologies."]>>

\* llm_service.py:71-95: the response of the first rule whose phrase the
\* lowered prompt holds, else the default response.
_generate_fallback_response(prompt) ==
    LET prompt_lower == lower(prompt)
        hits == {n \in 1..Len(fallback_rules) : Contains(prompt_lower, fallback_rules[n].phrase)}
    IN [by |-> "fallback", prompt |-> prompt,
        text |-> IF hits = {}
                 THEN "I am excited about this opportunity and believe my skills and experience make me a strong candidate for this position. I am eager to contribute to the team and help achieve the company's goals."
                 ELSE fallback_rules[CHOOSE n \in hits : \A other \in hits : n <= other].response]

\* llm_service.py:43-55: the completion the API returns for the prompt.
_generate_openai_response(prompt) ==
    [by |-> "openai", prompt |-> prompt, text |-> "choices[0].message.content"]

\* The mutant of generate_response: a failure of the API is raised to the
\* caller.
generate_response_raises(prompt, ok) ==
    IF ok THEN <<_generate_openai_response(prompt)>> ELSE None

\* llm_service.py:30-41: the completion of the API; when the call raises,
\* ok being FALSE, the fallback response.  use_openai is always True
\* (llm_service.py:17).
generate_response(prompt, ok) ==
    IF ok THEN <<_generate_openai_response(prompt)>>
    ELSE <<_generate_fallback_response(prompt)>>

\* The prompt of generate_form_response (llm_service.py:99-110) for a
\* question, the context left empty.
Prompt(question) ==
    <<"G","e","n","e","r","a","t","e"," ","a"," ","p","r","o","f","e","s","s","i","o","n","a","l"," ","r","e","s","p","o","n","s","e"," ","f","o","r"," ","t","h","e"," ","f","o","l","l","o","w","i","n","g"," ","j","o","b"," ","a","p","p","l","i","c","a","t","i","o","n"," ","q","u","e","s","t","i","o","n",":"," ","Q","u","e","s","t","i","o","n",":"," ">>
    \o question \o
    <<" ","C","o","n","t","e","x","t"," ","a","b","o","u","t"," ","t","h","e"," ","c","a","n","d","i","d","a","t","e",":"," ","-"," ","S","k","i","l","l","s",":"," ","-"," ","E","x","p","e","r","i","e","n","c","e",":"," ","-"," ","E","d","u","c","a","t","i","o","n",":"," ","P","r","o","v","i","d","e"," ","a"," ","c","o","n","c","i","s","e",","," ","p","r","o","f","e","s","s","i","o","n","a","l"," ","r","e","s","p","o","n","s","e"," ","t","h","a","t"," ","h","i","g","h","l","i","g","h","t","s"," ","r","e","l","e","v","a","n","t"," ","e","x","p","e","r","i","e","n","c","e"," ","a","n","d"," ","s","k","i","l","l","s","."," ","K","e","e","p"," ","i","t"," ","u","n","d","e","r"," ","1","5","0"," ","w","o","r","d","s",".">>

\* llm_service.py:97-112.
generate_form_response(question, ok) == generate_response(Prompt(question), ok)

\* form_filler.py:261: the query for the textareas; when it raises, ok being
\* FALSE, the except at form_filler.py:278 ends the stage.
QueryTextareas(ok) ==
    /\ fpc = "open_ended"
    /\ cursor = 0
    /\ IF ok THEN cursor' = 1 /\ fpc' = fpc
       ELSE cursor' = cursor /\ fpc' = "returned"
    /\ UNCHANGED <<page, personal_info, form_fields, attempts, faults, fillVars>>

\* One turn of the loop of fill_open_ended_questions (form_filler.py:263-276):
\* found is whether the lookups of the question return, llm_ok whether the
\* API call returns, fill_ok whether the driver's fill returns.  A raise
\* leaves the loop and is caught at form_filler.py:278: the stage returns.
FillTextarea(found, llm_ok, fill_ok) ==
    /\ fpc = "open_ended"
    /\ cursor >= 1
    /\ cursor <= Len(textareas)
    /\ LET question_text == _get_question_text(textareas[cursor], found)
           response == generate_form_response(question_text, llm_ok)
       IN /\ faults' = IF found THEN faults
                       ELSE [faults EXCEPT !.unlabeled = @ \cup {cursor}]
          /\ IF question_text = << >>
             THEN /\ cursor' = cursor + 1
                  /\ UNCHANGED <<fpc, attempts, textareas, llm_calls>>
             ELSE /\ llm_calls' = Append(llm_calls, [textarea |-> cursor,
                                                     question |-> question_text,
                                                     ok |-> llm_ok])
                  /\ IF response = None
                     THEN /\ fpc' = "returned"
                          /\ UNCHANGED <<cursor, attempts, textareas>>
                     ELSE /\ attempts' = Append(attempts, [field |-> cursor,
                                                           value |-> response[1],
                                                           filled |-> fill_ok])
                          /\ IF fill_ok
                             THEN /\ textareas' = [textareas EXCEPT ![cursor].value = response]
                                  /\ cursor' = cursor + 1
                                  /\ fpc' = fpc
                             ELSE /\ fpc' = "returned"
                                  /\ UNCHANGED <<cursor, textareas>>
    /\ UNCHANGED <<page, personal_info, form_fields, jobs, diversity>>

\* The loop is over: fill_open_ended_questions returns.
FillOpenEndedReturns ==
    /\ fpc = "open_ended"
    /\ cursor > Len(textareas)
    /\ fpc' = "returned"
    /\ UNCHANGED <<page, personal_info, form_fields, attempts, cursor, faults, fillVars>>

\* fill_open_ended_questions on a page with textareas.
OpenEndedInit ==
    /\ textareas \in TextareaLists
    /\ llm_calls = << >>
    /\ page = << >> /\ personal_info = << >> /\ form_fields = << >> /\ attempts = << >>
    /\ fpc = "open_ended" /\ cursor = 0 /\ faults = NoFaults
    /\ jobs = << >> /\ diversity = << >>
    /\ api_key = TRUE /\ acquire = TRUE
    /\ request = NoRequest
    /\ RunsIdle /\ SubmitIdle

OpenEndedNext ==
    \/ \E ok \in BOOLEAN : QueryTextareas(ok) /\ UNCHANGED <<runVars, request, submitVars>>
    \/ \E found, llm_ok, fill_ok \in BOOLEAN :
          FillTextarea(found, llm_ok, fill_ok) /\ UNCHANGED <<runVars, request, submitVars>>
    \/ FillOpenEndedReturns /\ UNCHANGED <<runVars, request, submitVars>>

OpenEndedSpec == OpenEndedInit /\ [][OpenEndedNext]_vars

\* ------------------------------------------------------------------ the claims
Entry(r) == application_status[runs[r].app_id]

Terminal(st) == st.status \in {"completed", "error"}

Last(s) == s[Len(s)]

NonDecreasing(s) == \A i \in 1..(Len(s) - 1) : s[i] <= s[i + 1]

\* The identifiers that start_application has returned.
Returned == {runs[r].app_id : r \in RunIds}

\* C1: the step in which something raised in process_application reaches the
\* handler leaves the run's entry with status error, progress 0 and a message
\* that contains the text of what was raised.
C1_RaiseBecomesError ==
    [][\A r \in RunIds :
          (runs[r].raised = NoError /\ runs'[r].raised # NoError) =>
              LET e == application_status'[runs[r].app_id] IN
                /\ e.status = "error"
                /\ e.progress = 0
                /\ Contains(e.message, runs'[r].raised)]_vars

\* A run whose navigate_to_application raised, after 20 was written, is in error.
C1_Witness ==
    \E r \in RunIds :
        /\ Contains(runs[r].raised, <<"Failed to navigate to ", runs[r].url, ": ">>)
        /\ \E i \in 1..Len(runs[r].written) : runs[r].written[i] = 20
        /\ Entry(r).status = "error" /\ Entry(r).progress = 0
        /\ Contains(Entry(r).message, runs[r].raised)

\* C2: in a run in which nothing has raised, the progress values the run has
\* written start at 0 and never decrease, the task ends with 100 as the last
\* value written, and the step that writes 100 leaves status completed.
C2_SuccessfulRunProgress ==
    /\ [](\A r \in RunIds :
            runs[r].raised = NoError =>
                /\ runs[r].written[1] = 0
                /\ NonDecreasing(runs[r].written)
                /\ (runs[r].pc = "done" => Last(runs[r].written) = 100))
    /\ [][\A r \in RunIds :
            (runs'[r].written # runs[r].written /\ Last(runs'[r].written) = 100) =>
                /\ application_status'[runs[r].app_id].status = "completed"
                /\ application_status'[runs[r].app_id].progress = 100]_vars

\* A run has ended without a raise, its entry completed at 100.
C2_Witness ==
    \E r \in RunIds :
        /\ runs[r].pc = "done" /\ runs[r].raised = NoError
        /\ runs[r].written = <<0, 10, 20, 40, 60, 70, 80, 90, 95, 100>>
        /\ Entry(r).status = "completed" /\ Entry(r).progress = 100

C4_SessionAcquired ==
    \A r \in RunIds :
        /\ <<runs[r].filler, r>> \in used => fillers[runs[r].filler].page # "None"
        /\ (runs[r].pc = "done" /\ api_key /\ ~Contains(runs[r].raised, DriverError))
              => Last(runs[r].written) = 100

\* C5: a run whose task has ended, completed or in error, has called close()
\* on the filler it constructed.
C5_SessionReleased ==
    \A r \in RunIds :
        (runs[r].pc = "done" /\ runs[r].filler # 0) => runs[r].close_called

\* C6: every run that start_application started ends, and its entry is then
\* completed or error: from any moment on, a run that has been started is
\* found ended with a terminal entry, then or later.
C6_RunTerminates ==
    \A r \in 1..MaxRuns :
        []<>(r \in RunIds => (runs[r].pc = "done" /\ Terminal(Entry(r))))

\* A run has gone through every stage and has ended.
C6_Witness ==
    \E r \in RunIds :
        /\ runs[r].pc = "done" /\ Terminal(Entry(r))
        /\ Len(runs[r].written) >= 10

\* C7: no two runs have the same identifier.
C7_UniqueIds ==
    \A i, j \in RunIds : i # j => runs[i].app_id # runs[j].app_id

C9_NoSharedSession ==
    /\ \A p, q \in used : p[1] = q[1] => p[2] = q[2]
    /\ \A p \in used : p[1] = runs[p[2]].filler

\* Two runs are each in a call on their own live session.
C9_Witness ==
    \E r1, r2 \in RunIds :
        /\ r1 # r2
        /\ <<runs[r1].filler, r1>> \in used /\ <<runs[r2].filler, r2>> \in used
        /\ fillers[runs[r1].filler].page = "live"
        /\ fillers[runs[r2].filler].page = "live"
        /\ runs[r1].pc \notin {"close", "done"} /\ runs[r2].pc \notin {"close", "done"}

\* C10: a poll answers not-found exactly for the identifiers start_application
\* has not returned, and the entry of a run whose task has not run yet is the
\* initial one (starting, 0) unless a task of the same identifier has run.
C10_PollFindsReturned ==
    /\ \A app_id \in AppIds : (Response(app_id).code = 404) <=> (app_id \notin Returned)
    /\ \A r \in RunIds :
          runs[r].pc = "created" =>
              \/ Entry(r) = InitialStatus
              \/ \E q \in RunIds : /\ q # r
                                   /\ runs[q].app_id = runs[r].app_id
                                   /\ runs[q].pc # "created"

\* A poll of a returned identifier finds the initial entry while a poll of
\* another identifier gets not-found.
C10_Witness ==
    \E a, b \in AppIds :
        /\ Response(a).code = 200 /\ Response(a).body = InitialStatus
        /\ a \in Returned
        /\ Response(b).code = 404

\* ------------------------------------------------------------------ the claims on the form filler
\* The value fill_personal_info gets for the field at i.
ValueOf(i) == _get_field_value(form_fields[i], personal_info, field_mappings)

\* The rules of field_mappings one of whose patterns is, without case, in the
\* name or in the label of the field at i.
HitRules(i) ==
    {rule \in 1..Len(field_mappings) :
        \E p \in 1..Len(field_mappings[rule].patterns) :
            \/ Contains(lower(form_fields[i].name), field_mappings[rule].patterns[p])
            \/ Contains(lower(form_fields[i].label), field_mappings[rule].patterns[p])}

Attempted(i) == \E n \in 1..Len(attempts) : attempts[n].field = i

\* The type attribute the field at i was detected with, text when absent.
RawType(i) ==
    IF page[form_fields[i].element].type # "" THEN page[form_fields[i].element].type
    ELSE "text"

\* C11: _get_field_value returns a value exactly for a field one of whose name
\* and label contains a pattern of some rule, and the value is the profile
\* attribute of the first such rule in table order; the value of the field
\* named applicant_first_name is the first name, and a fill is attempted with
\* the value returned.
C11_FirstRuleValue ==
    /\ \A i \in 1..Len(form_fields) :
          LET hits == HitRules(i)
              value == ValueOf(i)
          IN /\ (value # None) <=> (hits # {})
             /\ \A rule \in hits :
                   (\A other \in hits : rule <= other) =>
                       value = <<Attribute(personal_info, field_mappings[rule].info_key)>>
             /\ form_fields[i].name = <<"a","p","p","l","i","c","a","n","t","_","f","i","r","s","t","_","n","a","m","e">>
                   => value = <<personal_info.first_name>>
    /\ \A n \in 1..Len(attempts) : <<attempts[n].value>> = ValueOf(attempts[n].field)

\* The field named last_email, which the rules of last_name and of email both
\* match, has been filled with the last name.
C11_Witness ==
    \E n \in 1..Len(attempts) :
        /\ form_fields[attempts[n].field].name = <<"l","a","s","t","_","e","m","a","i","l">>
        /\ Cardinality(HitRules(attempts[n].field)) >= 2
        /\ attempts[n].value = personal_info.last_name
        /\ attempts[n].filled

\* C12: when fill_personal_info has returned, a fill was attempted for exactly
\* the detected fields whose type is text, email or phone and for which the
\* profile has a value.
C12_EligibleTypes ==
    fpc = "returned" =>
        \A i \in 1..Len(form_fields) :
            Attempted(i) <=>
                /\ form_fields[i].type \in {"text", "email", "phone"}
                /\ ValueOf(i) # None /\ ValueOf(i) # <<"">>

\* The rules of the classifier in their order: whether rule n holds of a name,
\* a placeholder and a raw type, and the type it gives.
RuleHolds(n, name, placeholder, raw) ==
    CASE n = 1 -> Contains(lower(name), <<"e","m","a","i","l">>) \/ Contains(lower(placeholder), <<"e","m","a","i","l">>)
      [] n = 2 -> Contains(lower(name), <<"p","h","o","n","e">>) \/ Contains(lower(name), <<"t","e","l">>)
      [] n = 3 -> Contains(lower(name), <<"d","a","t","e">>) \/ raw = "date"
      [] n = 4 -> raw = "file"
      [] n = 5 -> raw \in {"radio", "checkbox"}

RuleType == <<"email", "phone", "date", "file", "select">>

\* C13: the type of a detected field is that of the earliest rule that holds of
\* its name, placeholder and raw type, the raw type when none holds; fields
\* that agree on the three have the same type, and the field named email_date
\* is email.
C13_FirstRuleType ==
    /\ \A i \in 1..Len(form_fields) :
          LET f == form_fields[i]
              held == {n \in 1..Len(RuleType) :
                          RuleHolds(n, f.name, f.placeholder, RawType(i))}
          IN /\ held # {} =>
                   f.type = RuleType[CHOOSE n \in held : \A other \in held : n <= other]
             /\ held = {} => f.type = RawType(i)
             /\ f.name = <<"e","m","a","i","l","_","d","a","t","e">> => f.type = "email"
    /\ \A i, j \in 1..Len(form_fields) :
          (/\ form_fields[i].name = form_fields[j].name
           /\ form_fields[i].placeholder = form_fields[j].placeholder
           /\ RawType(i) = RawType(j))
              => form_fields[i].type = form_fields[j].type

\* The field named email_date, of which the email rule and the date rule both
\* hold, has been detected as email.
C13_Witness ==
    \E i \in 1..Len(form_fields) :
        /\ form_fields[i].name = <<"e","m","a","i","l","_","d","a","t","e">>
        /\ RuleHolds(1, form_fields[i].name, form_fields[i].placeholder, RawType(i))
        /\ RuleHolds(3, form_fields[i].name, form_fields[i].placeholder, RawType(i))
        /\ form_fields[i].type = "email"

\* C14: a detected field whose placeholder contains phone or tel, and neither
\* whose name nor placeholder contains email, is phone; one whose placeholder
\* contains date, and neither whose name nor placeholder contains email, phone
\* or tel, is date.
C14_PlaceholderTested ==
    \A i \in 1..Len(form_fields) :
        LET f == form_fields[i]
            In(text, word) == Contains(lower(text), word)
            email == In(f.name, <<"e","m","a","i","l">>) \/ In(f.placeholder, <<"e","m","a","i","l">>)
            phone == \/ In(f.name, <<"p","h","o","n","e">>) \/ In(f.name, <<"t","e","l">>)
                     \/ In(f.placeholder, <<"p","h","o","n","e">>) \/ In(f.placeholder, <<"t","e","l">>)
        IN /\ (~email /\ (In(f.placeholder, <<"p","h","o","n","e">>) \/ In(f.placeholder, <<"t","e","l">>)))
                  => f.type = "phone"
           /\ (~email /\ ~phone /\ In(f.placeholder, <<"d","a","t","e">>)) => f.type = "date"

\* C15: when the content was fetched after the click, the outcome is
\* submitted, its successful flag is whether the content contains, without
\* case, one of the four keywords, and its message is the one of success or
\* the one of an unclear status.
C15_SuccessKeywords ==
    content # None =>
        LET keyword == \E k \in {<<"t","h","a","n","k"," ","y","o","u">>,
                                 <<"a","p","p","l","i","c","a","t","i","o","n"," ","s","u","b","m","i","t","t","e","d">>,
                                 <<"s","u","c","c","e","s","s">>,
                                 <<"s","u","b","m","i","t","t","e","d"," ","s","u","c","c","e","s","s","f","u","l","l","y">>} :
                           Contains(lower(content[1]), k)
        IN /\ clicked # 0
           /\ outcome # None
           /\ outcome[1].submitted
           /\ outcome[1].successful <=> keyword
           /\ outcome[1].message =
                 IF keyword THEN <<"Application submitted successfully">>
                 ELSE <<"Application submitted (status unclear)">>
           /\ content[1] = <<"T","h","a","n","k"," ","y","o","u"," ","f","o","r"," ","a","p","p","l","y","i","n","g">> => outcome[1].successful

\* The content fetched after a click is in capitals and the outcome is
\* successful.
C15_Witness ==
    /\ clicked # 0
    /\ content = <<<<"A","P","P","L","I","C","A","T","I","O","N"," ","S","U","B","M","I","T","T","E","D">>>>
    /\ outcome # None /\ outcome[1].submitted /\ outcome[1].successful

\* C16: the submitted flag of the outcome is true exactly when a control was
\* clicked.
C16_SubmittedIffClicked ==
    outcome # None => (outcome[1].submitted <=> clicked # 0)

\* The selectors that match a control of the page.
Matching == {s \in 1..Len(submit_selectors) : query_selector(controls, submit_selectors[s]) # 0}

\* C17: when every selector was consulted and none matched, nothing was
\* clicked and the outcome is exactly the one of a missing button; when a
\* control was found, it is the first match of the first selector that has a
\* match, and the selectors consulted are those up to that one.
C17_FirstStrategyWins ==
    /\ (spc = "returned" /\ Len(consulted) = Len(submit_selectors) /\ Matching = {})
          => /\ clicked = 0
             /\ outcome = <<[submitted |-> FALSE, successful |-> FALSE,
                             message |-> <<"Submit button not found">>]>>
    /\ (Matching = {} /\ outcome # None) => ~outcome[1].submitted /\ clicked = 0
    /\ (spc \in {"click", "content"} \/ clicked # 0) =>
          LET first == CHOOSE s \in Matching : \A other \in Matching : s <= other
          IN /\ Matching # {}
             /\ submit_button = query_selector(controls, submit_selectors[first])
             /\ clicked \in {0, submit_button}
             /\ consulted = [s \in 1..first |-> s]

\* A control was clicked that comes later in the page than a control which
\* only a later selector matches.
C17_Witness ==
    /\ clicked # 0
    /\ \E at \in 1..Len(controls) :
          /\ at < clicked
          /\ \E s \in Matching : ControlMatches(submit_selectors[s], controls[at])

\* C18: fill_personal_info never raises; after a failed fill the loop is at a
\* later field; and when it has returned, a fill was attempted for every field
\* it maps for which the profile has a value.
C18_FillFailureNotFatal ==
    /\ fpc # "raised"
    /\ \A n \in 1..Len(attempts) :
          ~attempts[n].filled => (fpc \in {"personal", "returned"} /\ cursor > attempts[n].field)
    /\ fpc = "returned" =>
          \A i \in 1..Len(form_fields) :
              (Eligible(form_fields[i]) /\ ValueOf(i) # None /\ ValueOf(i) # <<"">>)
                  => Attempted(i)

\* fill_personal_info has returned, a fill failed and a fill of a later field
\* was attempted.
C18_Witness ==
    /\ fpc = "returned"
    /\ \E m, n \in 1..Len(attempts) :
          /\ m < n
          /\ ~attempts[m].filled
          /\ attempts[n].field > attempts[m].field
          /\ attempts[n].filled

StageOrder ==
    <<"created", "start_browser", "navigate", "detect", "personal", "work_history",
      "diversity", "open_ended", "submit", "close", "done">>

StageRank(pc) == CHOOSE n \in 1..Len(StageOrder) : StageOrder[n] = pc

\* C20: a task moves only forward in the order of the stages, so that no stage
\* is entered twice; it enters fill_work_history, fill_diversity_info and
\* fill_open_ended_questions only if the request has the part, it enters
\* submit_application only from fill_personal_info or a later fill stage, and
\* it enters fill_personal_info only from detect_form_fields, which it enters
\* only from navigate.
C20_StageOrder ==
    [][\A r \in RunIds :
          (r \in 1..Len(runs') /\ runs'[r].pc # runs[r].pc) =>
              /\ StageRank(runs'[r].pc) > StageRank(runs[r].pc)
              /\ runs'[r].pc = "work_history" => request.work_history
              /\ runs'[r].pc = "diversity" => request.diversity_info
              /\ runs'[r].pc = "open_ended" => request.resume_data
              /\ runs'[r].pc = "submit" =>
                    runs[r].pc \in {"personal", "work_history", "diversity", "open_ended"}
              /\ runs'[r].pc = "personal" => runs[r].pc = "detect"
              /\ runs'[r].pc = "detect" => runs[r].pc = "navigate"]_vars

\* A run of a request without work history and with resume data has gone
\* through fill_open_ended_questions and has completed.
C20_Witness ==
    /\ request \in Requests
    /\ ~request.work_history /\ request.resume_data
    /\ \E r \in RunIds : runs[r].pc = "done" /\ Last(runs[r].written) = 100

\* ------------------------------------------------------------------ the claims on the outcome and the store
\* The outcomes submit_application can return.
Outcomes == {submit_application(found, ok, success) : found, ok, success \in BOOLEAN}

\* C21: the step in which submit_application returns to a run leaves the run
\* without a raise and its entry completed at progress 100, with the outcome
\* as details, whatever the outcome is.
C21_OutcomeNeverFatal ==
    [][\A r \in RunIds :
          (runs[r].pc = "submit" /\ runs'[r].pc # "submit") =>
              LET e == application_status'[runs[r].app_id] IN
                /\ runs'[r].raised = NoError
                /\ runs'[r].pc = "close"
                /\ e.status = "completed"
                /\ e.progress = 100
                /\ \E result \in Outcomes : e.details = <<result>>]_vars

\* A run is completed at 100 with an outcome that is not submitted.
C21_Witness ==
    \E r \in RunIds :
        /\ runs[r].pc \in {"close", "done"} /\ runs[r].raised = NoError
        /\ Entry(r).status = "completed" /\ Entry(r).progress = 100
        /\ Entry(r).details # EmptyDetails
        /\ ~Entry(r).details[1].submitted

SelectorOf(at) ==
    LET matching == {s \in 1..Len(field_selectors) :
                        SelectorMatches(field_selectors[s], page[at])}
    IN IF matching = {} THEN 0
       ELSE CHOOSE s \in matching : \A other \in matching : s <= other

\* C29: when detect_form_fields has returned, self.form_fields holds exactly
\* one field for every matched element whose analysis did not fail, in the
\* order of the selectors and, under one selector, of the document; the field
\* of an element whose label lookup failed has an empty label and every other
\* field the label of its element; a scan that raised assigned nothing.
C29_PartialScan ==
    /\ fpc = "raised" => form_fields = << >>
    /\ fpc = "personal" =>
          /\ \A at \in 1..Len(page) :
                (\E i \in 1..Len(form_fields) : form_fields[i].element = at)
                    <=> (SelectorOf(at) # 0 /\ at \notin faults.failing)
          /\ \A i, j \in 1..Len(form_fields) :
                i < j =>
                    LET a == form_fields[i].element
                        b == form_fields[j].element
                    IN \/ SelectorOf(a) < SelectorOf(b)
                       \/ SelectorOf(a) = SelectorOf(b) /\ a < b
          /\ \A i \in 1..Len(form_fields) :
                form_fields[i].label =
                    IF form_fields[i].element \in faults.unlabeled THEN << >>
                    ELSE page[form_fields[i].element].label

\* The analysis of one element failed, the label lookup of another failed, and
\* the second, which the scan reaches later, is returned with an empty label.
C29_Witness ==
    /\ fpc = "personal"
    /\ \E at \in faults.failing :
          \E i \in 1..Len(form_fields) :
              LET b == form_fields[i].element IN
                /\ b \in faults.unlabeled
                /\ page[b].label # << >>
                /\ form_fields[i].label = << >>
                /\ \/ SelectorOf(at) < SelectorOf(b)
                   \/ SelectorOf(at) = SelectorOf(b) /\ at < b

\* C30: the type of every detected field is one of text, email, phone, date,
\* file, select and textarea.
C30_TypeEnumeration ==
    \A i \in 1..Len(form_fields) :
        form_fields[i].type \in {"text", "email", "phone", "date", "file", "select", "textarea"}

\* ------------------------------------------------------------------ the claims on the fill stages
\* The first element of the page whose name holds word and the decimal of
\* index, 0 when there is none.
FirstHolding(word, index) ==
    LET hits == NameHolds(page, word, index)
    IN IF hits = {} THEN 0 ELSE CHOOSE a \in hits : \A other \in hits : a <= other

\* C28: when fill_work_history has returned, for every entry the first
\* element whose name holds company and the entry's index holds the entry's
\* company, and likewise for position and for date with the start date; and
\* every fill was one of these.
C28_WorkHistoryFilled ==
    fpc = "returned" =>
        /\ \A i \in 1..Len(jobs) :
              /\ FirstHolding(<<"c","o","m","p","a","n","y">>, i) # 0 =>
                    page[FirstHolding(<<"c","o","m","p","a","n","y">>, i)].value = jobs[i].company
              /\ FirstHolding(<<"p","o","s","i","t","i","o","n">>, i) # 0 =>
                    page[FirstHolding(<<"p","o","s","i","t","i","o","n">>, i)].value = jobs[i].position
              /\ FirstHolding(<<"d","a","t","e">>, i) # 0 =>
                    page[FirstHolding(<<"d","a","t","e">>, i)].value = jobs[i].start_date
        /\ \A n \in 1..Len(attempts) :
              attempts[n].field \in {FirstHolding(<<"c","o","m","p","a","n","y">>, attempts[n].entry),
                                     FirstHolding(<<"p","o","s","i","t","i","o","n">>, attempts[n].entry),
                                     FirstHolding(<<"d","a","t","e">>, attempts[n].entry)}

\* The categories of diversity_patterns.
Categories == {"veteran", "disability", "race", "gender"}

\* The known fields that a pattern of the category hits.
FieldsFor(category) ==
    {at \in 1..Len(form_fields) :
        \E n \in 1..Len(diversity_patterns) :
            /\ diversity_patterns[n].category = category
            /\ PatternHits(form_fields[at], diversity_patterns[n].pattern)}

\* The value the profile holds for a category.
ProfileValue(category) ==
    CASE category = "veteran" -> diversity[1].veteran_status
      [] category = "disability" -> diversity[1].disability_status
      [] category = "race" -> diversity[1].race_ethnicity
      [] category = "gender" -> diversity[1].gender

\* C26: when fill_diversity_info has returned, every category with a
\* matching field has exactly one fill, on the first of its matching fields.
C26_FirstMatchPerCategory ==
    fpc = "returned" =>
        \A category \in Categories :
            LET fills == {n \in 1..Len(attempts) : attempts[n].category = category}
                fields == FieldsFor(category)
            IN /\ Cardinality(fills) <= 1
               /\ fields # {} =>
                     \E n \in fills : \A other \in fields : attempts[n].field <= other

\* C27: when fill_diversity_info has returned, a field matched for a
\* category was given the profile's value for the category.
C27_ProfileValueWritten ==
    fpc = "returned" =>
        \A category \in Categories :
            /\ \A n \in 1..Len(attempts) :
                  attempts[n].category = category => attempts[n].value = ProfileValue(category)
            /\ FieldsFor(category) # {} =>
                  \E n \in 1..Len(attempts) :
                      /\ attempts[n].category = category
                      /\ attempts[n].field \in FieldsFor(category)
                      /\ attempts[n].value = ProfileValue(category)

\* The question the page shows for the textarea at index i: the text of its
\* label, or without a label the text of its heading; empty when the lookup
\* raised.
QuestionOf(i) ==
    IF i \in faults.unlabeled THEN << >>
    ELSE IF textareas[i].label # None THEN textareas[i].label[1]
    ELSE IF textareas[i].heading # None THEN textareas[i].heading[1]
    ELSE << >>

\* No fill of the stage was refused by the driver, and the query for the
\* textareas returned.
NoDriverFailure == cursor >= 1 /\ \A n \in 1..Len(attempts) : attempts[n].filled

\* C23: when fill_open_ended_questions has returned, every textarea after
\* one whose fill failed was still attempted: the loop went past it.
C23_FailureSkipsOnlyTheElement ==
    fpc = "returned" =>
        \A n \in 1..Len(attempts) :
            ~attempts[n].filled =>
                \A later \in (attempts[n].field + 1)..Len(textareas) : cursor > later

\* C24: a failure of the generation for a textarea is not raised: the stage
\* goes on to fill that textarea, the generator is called at most once for a
\* textarea, and a stage that returns without a failure of the driver went
\* through every textarea.
C24_GenerationFailureLocal ==
    /\ fpc # "raised"
    /\ \A n \in 1..Len(llm_calls) :
          ~llm_calls[n].ok =>
              \E m \in 1..Len(attempts) : attempts[m].field = llm_calls[n].textarea
    /\ \A n, m \in 1..Len(llm_calls) :
          llm_calls[n].textarea = llm_calls[m].textarea => n = m
    /\ (fpc = "returned" /\ NoDriverFailure) => cursor > Len(textareas)

C24_Witness ==
    /\ fpc = "returned"
    /\ Len(textareas) = 2
    /\ \E n \in 1..Len(llm_calls) : llm_calls[n].textarea = 1 /\ ~llm_calls[n].ok
    /\ textareas[1].value # << >>
    /\ textareas[2].value # << >>

\* C25: a textarea without a question is never filled and no generation is
\* asked for it; a filled textarea holds the generator's response to the
\* prompt of its question; and when the stage has returned every textarea
\* with a question is filled, unless the driver refused the fill of that
\* very textarea.
C25_QuestionDecidesFill ==
    /\ \A i \in 1..Len(textareas) :
          QuestionOf(i) = << >> =>
              /\ textareas[i].value = << >>
              /\ \A n \in 1..Len(llm_calls) : llm_calls[n].textarea # i
              /\ \A n \in 1..Len(attempts) : attempts[n].field # i
    /\ \A i \in 1..Len(textareas) :
          textareas[i].value # << >> =>
              /\ QuestionOf(i) # << >>
              /\ textareas[i].value[1].prompt = Prompt(QuestionOf(i))
              /\ \E n \in 1..Len(llm_calls) :
                    /\ llm_calls[n].textarea = i
                    /\ llm_calls[n].question = QuestionOf(i)
                    /\ textareas[i].value[1].by = IF llm_calls[n].ok THEN "openai" ELSE "fallback"
    /\ (fpc = "returned" /\ cursor >= 1) =>
          \A i \in 1..Len(textareas) :
              QuestionOf(i) # << >> =>
                  \/ textareas[i].value # << >>
                  \/ \E n \in 1..Len(attempts) : attempts[n].field = i /\ ~attempts[n].filled

====
